---- MODULE Spec2Model ----
(***************************************************************************)
(* The visa-statistics batch job of src/src/jobs/visualisation.py as a     *)
(* state machine: load -> rename columns -> drop empty rows and project -> *)
(* correct country names -> map continents -> three aggregations, each     *)
(* followed by a chart file -> CSV export.                                 *)
(*                                                                         *)
(* Conventions.  A nullable value is a sequence: <<>> is SQL NULL / Python *)
(* None and <<v>> holds v.  A string the job inspects character by         *)
(* character (column names, country names) is a sequence of one-character  *)
(* strings.  A DataFrame is a bag of rows: Spark gives a table no row      *)
(* order unless a query sorts it.                                          *)
(***************************************************************************)
EXTENDS Integers, Sequences, FiniteSets, Bags, TLC

VARIABLES
    pc,          \* the statement block the script is about to run
    error,       \* why the run stopped early ("none" while it has not)
    columns,     \* df.columns
    df,          \* the working DataFrame
    removed,     \* initial_count - df.count(), printed after filtering
    df_cont,     \* result of the continent query
    df_country,  \* result of the top-countries query
    df_geo,      \* result of the geographic query
    written      \* output artifacts this run has written, in order

vars == <<pc, error, columns, df, removed, df_cont, df_country, df_geo, written>>

---------------------------------------------------------------------------
(* Nullable values *)

NULL == <<>>

Some(v) == <<v>>

IsNull(x) == x = NULL

Val(x) == x[1]

---------------------------------------------------------------------------
(* Bounds of the model *)

\* free rows of an input table (on top of the fixed block of filler rows)
MaxRows == 2

\* length of the column names tried by the renaming specification
MaxNameLen == 3

\* length of the country strings tried by the correction specification
MaxCountryLen == 3

---------------------------------------------------------------------------
(* Character strings *)

RECURSIVE replace(_, _, _)
\* str.replace(old, new) for a one-character old and any string new
replace(s, old, new) ==
    IF s = <<>> THEN <<>>
    ELSE (IF Head(s) = old THEN new ELSE <<Head(s)>>) \o replace(Tail(s), old, new)

\* str.lower() on the letters the model uses
LowerChar(c) ==
    CASE c = "A" -> "a"
      [] c = "C" -> "c"
      [] c = "N" -> "n"
      [] c = "O" -> "o"
      [] c = "P" -> "p"
      [] c = "Y" -> "y"
      [] OTHER -> c

Lower(s) == [i \in 1..Len(s) |-> LowerChar(s[i])]

\* all strings over alphabet of length at most n
StringsUpTo(alphabet, n) == UNION {[1..k -> alphabet] : k \in 0..n}

---------------------------------------------------------------------------
(* Column names *)

ColYear == <<"y","e","a","r">>

ColCountry == <<"c","o","u","n","t","r","y">>

ColIssued ==
    <<"n","u","m","b","e","r","_","o","f","_","i","s","s","u","e","d","_",
      "n","u","m","e","r","i","c","a","l">>

\* header of the input file: the three columns the job uses, with the spaces
\* the renaming turns into underscores, and one column it discards
RawColumns ==
    << <<"Y","e","a","r">>,
       <<"C","o","u","n","t","r","y">>,
       <<"c","o","d","e",".","n","o">>,
       <<"N","u","m","b","e","r"," ","o","f"," ","i","s","s","u","e","d","_",
         "n","u","m","e","r","i","c","a","l">> >>

\* one cleaned column name
\* the rename with the spaces deleted like the punctuation
new_column_name_deleting(col_name) ==
    replace(replace(replace(replace(col_name, " ", <<>>), "/", <<>>), ".", <<>>), ",", <<>>)

new_column_name(col_name) ==
    replace(replace(replace(replace(col_name, " ", <<"_">>), "/", <<>>), ".", <<>>), ",", <<>>)

new_column_names(cols) == [i \in 1..Len(cols) |-> new_column_name(cols[i])]

---------------------------------------------------------------------------
(* Cleaner: dropna(how='all') and select *)

\* a row is a tuple of nullable values, one per column
AllNull(row) == \A i \in 1..Len(row) : IsNull(row[i])

\* the rows of bag B that satisfy P, with their multiplicities
FilterBag(B, P(_)) == [r \in {x \in DOMAIN B : P(x)} |-> B[r]]

\* dropna(how='any'): a row is kept when no field is null
KeepRow_any(row) == \A i \in 1..Len(row) : ~IsNull(row[i])

KeepRow(row) == ~AllNull(row)

\* the cleaning without the dropna
dropna_skipped(B) == B

\* df.dropna(how='all')
dropna_all(B) == FilterBag(B, KeepRow)

\* positions of the columns a name resolves to (Spark resolves names
\* without regard to case)
Resolve(cols, name) == {i \in 1..Len(cols) : Lower(cols[i]) = Lower(name)}

Resolvable(cols, name) == Cardinality(Resolve(cols, name)) = 1

ColumnOf(cols, name) == CHOOSE i \in Resolve(cols, name) : TRUE

\* df.select('year', 'country', 'number_of_issued_numerical')
select(cols, B) ==
    LET year == ColumnOf(cols, ColYear)
        country == ColumnOf(cols, ColCountry)
        number_of_issued_numerical == ColumnOf(cols, ColIssued)
        Pick(row) == [year    |-> row[year],
                      country |-> row[country],
                      number_of_issued_numerical |-> row[number_of_issued_numerical]]
    IN  BagOfAll(Pick, B)

---------------------------------------------------------------------------
(* Country Corrector: fuzzywuzzy's process.extractOne over pycountry names *)

Max(a, b) == IF a >= b THEN a ELSE b

\* int(round(n / d)) for n >= 0, d > 0: Python rounds halves to even
intr(n, d) ==
    LET q == n \div d
        r == n % d
    IN  IF 2 * r > d THEN q + 1
        ELSE IF 2 * r = d THEN q + (q % 2)
        ELSE q

\* the reference list [country.name for country in pycountry.countries],
\* cut down to four entries
Chad == <<"C","h","a","d">>

Cuba == <<"C","u","b","a">>

Oman == <<"O","m","a","n">>

Pitcairn == <<"P","i","t","c","a","i","r","n">>

countries == <<Chad, Cuba, Oman, Pitcairn>>

IsAlnum(c) == c \notin {" ", ".", ",", "/", "-", "_"}

RECURSIVE lstrip(_)
lstrip(s) == IF s # <<>> /\ Head(s) = " " THEN lstrip(Tail(s)) ELSE s

RECURSIVE rstrip(_)
rstrip(s) ==
    IF s # <<>> /\ s[Len(s)] = " " THEN rstrip(SubSeq(s, 1, Len(s) - 1)) ELSE s

\* utils.full_process: every character that is no letter or digit becomes a
\* space, the string is lower-cased and stripped
full_process(s) ==
    rstrip(lstrip([i \in 1..Len(s) |-> IF IsAlnum(s[i]) THEN LowerChar(s[i]) ELSE " "]))

RECURSIVE LCSRow(_, _, _, _)
\* one row of the table of longest-common-subsequence lengths: the entries
\* for ch after the prefix whose row is prev, against b[1..j]; new holds
\* the entries found so far
LCSRow(prev, ch, b, new) ==
    IF Len(new) = Len(b) THEN new
    ELSE LET j == Len(new) + 1
             diag == IF j = 1 THEN 0 ELSE prev[j - 1]
             left == IF j = 1 THEN 0 ELSE new[j - 1]
         IN  LCSRow(prev, ch, b,
                    Append(new, IF ch = b[j] THEN diag + 1 ELSE Max(prev[j], left)))

RECURSIVE LCSFrom(_, _, _)
LCSFrom(a, b, prev) ==
    IF a = <<>> THEN (IF b = <<>> THEN 0 ELSE prev[Len(b)])
    ELSE LCSFrom(Tail(a), b, LCSRow(prev, Head(a), b, <<>>))

\* the number of matched characters: the length of a longest common
\* subsequence
LCS(a, b) == LCSFrom(a, b, [j \in 1..Len(b) |-> 0])

\* fuzz.ratio: 100 * 2M / T, M the matched characters, T the two lengths
ratio(s1, s2) ==
    IF s1 = <<>> \/ s2 = <<>> THEN 0
    ELSE intr(200 * LCS(s1, s2), Len(s1) + Len(s2))

\* fuzz.partial_ratio: the shorter string against the windows of its length
\* in the longer one
partial_ratio(s1, s2) ==
    LET shorter == IF Len(s1) <= Len(s2) THEN s1 ELSE s2
        longer  == IF Len(s1) <= Len(s2) THEN s2 ELSE s1
        Window(k) == SubSeq(longer, k, Len(longer) - Max(0, Len(longer) - (k + Len(shorter) - 1)))
        scores  == {ratio(shorter, Window(k)) : k \in 1..Len(longer)}
    IN  IF shorter = <<>> THEN 0
        ELSE CHOOSE m \in scores : \A x \in scores : x <= m

\* fuzz.WRatio on processed strings of one token each: the plain ratio, and
\* when one string is at least 1.5 times as long as the other also the
\* partial ratio scaled by 0.9 (0.6 past a factor of 8)
WRatio(p1, p2) ==
    IF p1 = <<>> \/ p2 = <<>> THEN 0
    ELSE LET base == ratio(p1, p2)
             lmin == IF Len(p1) <= Len(p2) THEN Len(p1) ELSE Len(p2)
             lmax == Max(Len(p1), Len(p2))
             try_partial == ~(2 * lmax < 3 * lmin)
             partial_scale == IF lmax > 8 * lmin THEN 6 ELSE 9
         IN  IF try_partial
             THEN intr(Max(10 * base, partial_scale * partial_ratio(p1, p2)), 10)
             ELSE base

\* process.extractOne(query, choices): the first choice of maximal score,
\* with that score
extractOne(query, choices) ==
    LET processed_query == full_process(query)
        scored == {<<i, WRatio(processed_query, full_process(choices[i]))>> :
                       i \in 1..Len(choices)}
        best == CHOOSE m \in scored :
                    \A o \in scored : o[2] <= m[2] /\ (o[1] < m[1] => o[2] < m[2])
    IN  <<choices[best[1]], best[2]>>

threshold == 85

\* a match accepted from a score of 50
AcceptMatch_low(score) == score >= 50

AcceptMatch(score) == score >= threshold

\* correct_country_name(name) for a string name
correct_country_name(name) ==
    LET match == extractOne(name, countries)
        corrected_name == match[1]
        score == match[2]
    IN  IF AcceptMatch(score) THEN corrected_name ELSE name


---------------------------------------------------------------------------
(* Continent Mapper: pycountry_convert's three lookups *)

Ok(v) == <<"ok", v>>

KeyError == <<"KeyError">>

Raises(result) == result[1] # "ok"

Result(result) == result[2]

\* country name -> alpha-2 code, for the reference countries
NameToAlpha2 == (Chad :> "TD") @@ (Cuba :> "CU") @@ (Oman :> "OM") @@ (Pitcairn :> "PN")

\* alpha-2 code -> continent code; the library maps no continent to PN
Alpha2ToContinentCode == ("TD" :> "AF") @@ ("CU" :> "NA") @@ ("OM" :> "AS")

ContinentCodeToName ==
    ("AF" :> "Africa") @@ ("AS" :> "Asia") @@ ("EU" :> "Europe") @@
    ("NA" :> "North America") @@ ("OC" :> "Oceania") @@ ("SA" :> "South America") @@
    ("AN" :> "Antarctica")

\* pcc.country_name_to_country_alpha2 on the Python value of a column value
country_name_to_country_alpha2(country_name) ==
    IF ~IsNull(country_name) /\ Val(country_name) \in DOMAIN NameToAlpha2
    THEN Ok(NameToAlpha2[Val(country_name)]) ELSE KeyError

country_alpha2_to_continent_code(country_code) ==
    IF country_code \in DOMAIN Alpha2ToContinentCode
    THEN Ok(Alpha2ToContinentCode[country_code]) ELSE KeyError

convert_continent_code_to_continent_name(continent_code) ==
    IF continent_code \in DOMAIN ContinentCodeToName
    THEN Ok(ContinentCodeToName[continent_code]) ELSE KeyError

\* the body of the try block: the first lookup that raises ends the chain
continent_chain(country_name) ==
    LET country_code == country_name_to_country_alpha2(country_name)
    IN  IF Raises(country_code) THEN country_code
        ELSE LET continent_code == country_alpha2_to_continent_code(Result(country_code))
             IN  IF Raises(continent_code) THEN continent_code
                 ELSE convert_continent_code_to_continent_name(Result(continent_code))

\* get_continent_name: Ok(nullable continent), or an exception left to the caller
\* the mapper without its try/except
get_continent_name_no_except(country_name) ==
    LET chain == continent_chain(country_name)
    IN  IF Raises(chain) THEN chain ELSE Ok(Some(Result(chain)))

get_continent_name(country_name) ==
    LET chain == continent_chain(country_name)
    IN  IF Raises(chain) THEN Ok(NULL) ELSE Ok(Some(Result(chain)))

---------------------------------------------------------------------------
(* Aggregator: the three Spark SQL queries over global_temp.japan_visa *)

Total == <<"t","o","t","a","l">>

Others == <<"o","t","h","e","r","s">>

\* the year of the top-countries query
TopYear == 2017

\* its LIMIT
Limit == 10

RECURSIVE SumOver(_, _)
\* the issued counts of the rows S of bag B added up, each row B[r] times
SumOver(B, S) ==
    IF S = {} THEN 0
    ELSE LET r == CHOOSE x \in S : TRUE
         IN  B[r] * Val(r.number_of_issued_numerical) + SumOver(B, S \ {r})

\* what SUM yields for a group none of whose values is counted
EmptySum == NULL

\* a sum that is NULL as soon as one value of the group is
SUM_nullpoison(B) ==
    IF \E r \in DOMAIN B : IsNull(r.number_of_issued_numerical)
    THEN NULL
    ELSE Some(SumOver(B, DOMAIN B))

\* SUM(number_of_issued_numerical) over a group: NULLs are skipped, and a
\* group with no value left has no sum
SUM(B) ==
    LET counted == {r \in DOMAIN B : ~IsNull(r.number_of_issued_numerical)}
    IN  IF counted = {} THEN EmptySum ELSE Some(SumOver(B, counted))

\* country NOT IN ('total', 'others'): NULL for a NULL country, which WHERE
\* treats as false
NotInSentinels(r) == ~IsNull(r.country) /\ Val(r.country) \notin {Total, Others}

\* WHERE continent IS NOT NULL
ContWhere(r) == ~IsNull(r.continent)

\* the top-countries filter without its year
CountryWhere_anyyear(r) == NotInSentinels(r)

\* WHERE country NOT IN ('total', 'others') AND year = 2017
CountryWhere(r) == NotInSentinels(r) /\ ~IsNull(r.year) /\ Val(r.year) = TopYear

\* the geographic filter with 'total' alone excluded
GeoWhere_keepsOthers(r) == ~IsNull(r.country) /\ Val(r.country) # Total

\* WHERE country NOT IN ('total', 'others')
GeoWhere(r) == NotInSentinels(r)

\* SELECT year, continent, SUM(..) .. GROUP BY year, continent
GroupByYearContinent(B) ==
    LET keys == {<<r.year, r.continent>> : r \in DOMAIN B}
        Group(k) == FilterBag(B, LAMBDA r : <<r.year, r.continent>> = k)
    IN  {[year |-> k[1], continent |-> k[2], visa_issued |-> SUM(Group(k))] : k \in keys}

\* SELECT country, SUM(..) .. GROUP BY country
GroupByCountry(B) ==
    LET keys == {r.country : r \in DOMAIN B}
        Group(k) == FilterBag(B, LAMBDA r : r.country = k)
    IN  {[country |-> k, visa_issued |-> SUM(Group(k))] : k \in keys}

\* SELECT year, country, SUM(..) .. GROUP BY year, country
GroupByYearCountry(B) ==
    LET keys == {<<r.year, r.country>> : r \in DOMAIN B}
        Group(k) == FilterBag(B, LAMBDA r : <<r.year, r.country>> = k)
    IN  {[year |-> k[1], country |-> k[2], visa_issued |-> SUM(Group(k))] : k \in keys}

(* A sorted result is a sequence of tie classes: the rows of one class have  *)
(* equal sort keys and come in an order Spark does not fix; every row of a   *)
(* class comes before every row of the next class.                           *)

\* a DESC b: a sorts no later than b, NULLs last
DescNullsLast(a, b) ==
    IF IsNull(b) THEN TRUE ELSE IF IsNull(a) THEN FALSE ELSE Val(a) >= Val(b)

\* a ASC b: a sorts no later than b, NULLs first
AscNullsFirst(a, b) ==
    IF IsNull(a) THEN TRUE ELSE IF IsNull(b) THEN FALSE ELSE Val(a) <= Val(b)

RECURSIVE OrderByVisaIssuedDesc(_)
\* ORDER BY visa_issued DESC
OrderByVisaIssuedDesc(rows) ==
    IF rows = {} THEN <<>>
    ELSE LET first == {r \in rows : \A q \in rows : DescNullsLast(r.visa_issued, q.visa_issued)}
         IN  <<first>> \o OrderByVisaIssuedDesc(rows \ first)

RECURSIVE OrderByYear(_)
\* ORDER BY year
OrderByYear(rows) ==
    IF rows = {} THEN <<>>
    ELSE LET first == {r \in rows : \A q \in rows : AscNullsFirst(r.year, q.year)}
         IN  <<first>> \o OrderByYear(rows \ first)

\* a LIMIT that returns any n rows, whatever their order
LimitTo_any(classes, n) ==
    LET all == UNION {classes[i] : i \in 1..Len(classes)}
    IN  IF Cardinality(all) <= n THEN {<<all>>}
        ELSE {<<part>> : part \in {x \in SUBSET all : Cardinality(x) = n}}

RECURSIVE LimitTo(_, _)
\* LIMIT n of a sorted result, as the set of results Spark may return: the
\* classes that fit whole, then any rows of the next class that fill up n
LimitTo(classes, n) ==
    IF classes = <<>> \/ n = 0 THEN {<<>>}
    ELSE LET c == Head(classes)
         IN  IF Cardinality(c) <= n
             THEN {<<c>> \o rest : rest \in LimitTo(Tail(classes), n - Cardinality(c))}
             ELSE {<<part>> : part \in {x \in SUBSET c : Cardinality(x) = n}}

\* the continent query: an unsorted result, a set of rows
cont_query(B) == GroupByYearContinent(FilterBag(B, ContWhere))

\* the top-countries query: the set of its possible results
country_query(B) ==
    LimitTo(OrderByVisaIssuedDesc(GroupByCountry(FilterBag(B, CountryWhere))), Limit)

\* the geographic query
geo_query(B) == OrderByYear(GroupByYearCountry(FilterBag(B, GeoWhere)))

\* the rows of a sorted result
RowsOf(classes) == UNION {classes[i] : i \in 1..Len(classes)}

---------------------------------------------------------------------------
(* Input files *)

\* ten countries with one 2017 record each and the issued counts 1..10
FillerCountries ==
    <<Chad, Cuba, Oman, Pitcairn, <<"x","5">>, <<"x","6">>, <<"x","7">>,
      <<"x","8">>, <<"x","9">>, <<"x","0">> >>

\* a row of the input file, in the order of RawColumns
FillerRow(i) == <<Some(TopYear), Some(FillerCountries[i]), NULL, Some(i)>>

FillerRows(k) == SetToBag({FillerRow(i) : i \in 1..k})

Years == {NULL, Some(TopYear - 1), Some(TopYear)}

\* a misspelt reference name, and a string that is no country
Chd == <<"c","h","d">>

Zz == <<"z","z">>

FreeCountries == {NULL, Some(Total), Some(Others), Some(Chd), Some(Zz)}

FreeRows ==
    {<<y, c, code, n>> : y \in Years, c \in FreeCountries,
                         code \in {NULL, Some(1)}, n \in {NULL, Some(1)}}

\* the bag of the rows of a sequence
BagOfSeq(rows) ==
    [r \in {rows[i] : i \in 1..Len(rows)} |-> Cardinality({i \in 1..Len(rows) : rows[i] = r})]

\* the column names the renaming is tried on
NameAlphabet == {" ", "/", ".", ",", "a", "b"}

HeaderNames == StringsUpTo(NameAlphabet, MaxNameLen) \ {<<>>}

\* the country strings the correction is tried on: the short strings over a
\* few letters of the reference names, and the reference names themselves
CountryAlphabet == {"c", "u", "a", "d", "C", "."}

CorrectionInputs ==
    (StringsUpTo(CountryAlphabet, MaxCountryLen) \ {<<>>})
        \cup {countries[i] : i \in 1..Len(countries)}

\* every string the country column holds in a table of the model
CountryStrings ==
    {FillerCountries[i] : i \in 1..Len(FillerCountries)}
        \cup {Val(c) : c \in FreeCountries \ {NULL}} \cup CorrectionInputs

---------------------------------------------------------------------------
(* The script, block by block *)

Running == {"load", "rename", "filter", "correct", "continent",
            "cont", "country", "geo", "export"}

\* the run ends with an exception: the driver process is gone, the files it
\* wrote stay
Stop(e) ==
    /\ pc' = "failed"
    /\ error' = e
    /\ columns' = <<>>
    /\ df' = EmptyBag
    /\ removed' = 0
    /\ df_cont' = {}
    /\ df_country' = <<>>
    /\ df_geo' = <<>>
    /\ UNCHANGED written

Init ==
    /\ pc = "load"
    /\ error = "none"
    /\ columns = <<>>
    /\ df = EmptyBag
    /\ removed = 0
    /\ df_cont = {}
    /\ df_country = <<>>
    /\ df_geo = <<>>
    /\ written = <<>>

\* spark.read.csv(..., header=True, inferSchema=True) of a file that holds
\* the filler rows, or none of them, and up to MaxRows further rows
Load ==
    /\ pc = "load"
    /\ columns' = RawColumns
    /\ \E k \in {0, Limit}, n \in 0..MaxRows :
          \E rows \in [1..n -> FreeRows] : df' = FillerRows(k) (+) BagOfSeq(rows)
    /\ pc' = "rename"
    /\ UNCHANGED <<error, removed, df_cont, df_country, df_geo, written>>

\* df.toDF(*new_column_names)
CleanColumnNames ==
    /\ pc = "rename"
    /\ columns' = new_column_names(columns)
    /\ pc' = "filter"
    /\ UNCHANGED <<error, df, removed, df_cont, df_country, df_geo, written>>

\* dropna, select, and the count of removed rows
FilterData ==
    /\ pc = "filter"
    /\ IF \A name \in {ColYear, ColCountry, ColIssued} : Resolvable(columns, name)
       THEN LET initial_count == BagCardinality(df)
                kept == select(columns, dropna_all(df))
            IN  /\ df' = kept
                /\ columns' = <<ColYear, ColCountry, ColIssued>>
                /\ removed' = initial_count - BagCardinality(kept)
                /\ pc' = "correct"
                /\ UNCHANGED <<error, df_cont, df_country, df_geo, written>>
       ELSE Stop("AnalysisException")

\* correct_country_name over the strings of the country column, as a table
\* (@@ makes TLC build the table once instead of scoring a string anew at
\* every use)
correct_country_name_udf ==
    [name \in CountryStrings |-> correct_country_name(name)] @@ <<>>

CorrectRow(r) ==
    [r EXCEPT !.country = IF IsNull(r.country) THEN NULL
                          ELSE Some(correct_country_name_udf[Val(r.country)])]

\* df.withColumn('country', correct_country_name_udf(df['country'])).  The
\* UDF receives None for a NULL country; fuzzywuzzy either scores None as
\* the empty string, and the UDF returns None, or raises a TypeError,
\* depending on its version.
CorrectCountryNames ==
    /\ pc = "correct"
    /\ \/ /\ df' = BagOfAll(CorrectRow, df)
          /\ pc' = "continent"
          /\ UNCHANGED <<error, columns, removed, df_cont, df_country, df_geo, written>>
       \/ /\ \E r \in DOMAIN df : IsNull(r.country)
          /\ Stop("TypeError")

ContinentRow(r) ==
    [year |-> r.year, country |-> r.country,
     number_of_issued_numerical |-> r.number_of_issued_numerical,
     continent |-> Result(get_continent_name(r.country))]

\* df.withColumn('continent', continent_udf(df['country'])); an exception
\* that leaves the UDF fails the job
MapContinents ==
    /\ pc = "continent"
    /\ IF \E r \in DOMAIN df : Raises(get_continent_name(r.country))
       THEN Stop("PythonException")
       ELSE /\ df' = BagOfAll(ContinentRow, df)
            /\ columns' = Append(columns, <<"c","o","n","t","i","n","e","n","t">>)
            /\ pc' = "cont"
            /\ UNCHANGED <<error, removed, df_cont, df_country, df_geo, written>>

\* the continent query and its chart
ContinentAnalysis ==
    /\ pc = "cont"
    /\ df_cont' = cont_query(df)
    /\ written' = Append(written, "output/visa_continent.html")
    /\ pc' = "country"
    /\ UNCHANGED <<error, columns, df, removed, df_country, df_geo>>

\* the top-countries query and its chart
CountryAnalysis ==
    /\ pc = "country"
    /\ df_country' \in country_query(df)
    /\ written' = Append(written, "output/top_countries_2017.html")
    /\ pc' = "geo"
    /\ UNCHANGED <<error, columns, df, removed, df_cont, df_geo>>

\* the geographic query and its chart
GeographicVisualization ==
    /\ pc = "geo"
    /\ df_geo' = geo_query(df)
    /\ written' = Append(written, "output/geographic_distribution.html")
    /\ pc' = "export"
    /\ UNCHANGED <<error, columns, df, removed, df_cont, df_country>>

\* the export step without its write
DataExport_noWrite ==
    /\ pc = "export"
    /\ pc' = "done"
    /\ UNCHANGED <<written, error, columns, df, removed, df_cont, df_country, df_geo>>

\* df.write.csv("output/cleaned_visa_data", mode="overwrite", header=True)
DataExport ==
    /\ pc = "export"
    /\ written' = Append(written, "output/cleaned_visa_data")
    /\ pc' = "done"
    /\ UNCHANGED <<error, columns, df, removed, df_cont, df_country, df_geo>>

\* the block the script is in fails for a reason outside the data (the input
\* file is missing, the output directory cannot be written, a Spark job is
\* lost): nothing in the script catches the exception
Abort ==
    /\ pc \in Running
    /\ Stop("Exception")

Next ==
    \/ Load
    \/ CleanColumnNames
    \/ FilterData
    \/ CorrectCountryNames
    \/ MapContinents
    \/ ContinentAnalysis
    \/ CountryAnalysis
    \/ GeographicVisualization
    \/ DataExport
    \/ Abort

Spec == Init /\ [][Next]_vars

---------------------------------------------------------------------------
(* The renaming alone, on a file whose header is one column name *)

InitRename ==
    /\ pc = "rename"
    /\ error = "none"
    /\ \E name \in HeaderNames : columns = <<name>>
    /\ df = EmptyBag
    /\ removed = 0
    /\ df_cont = {}
    /\ df_country = <<>>
    /\ df_geo = <<>>
    /\ written = <<>>

SpecRename == InitRename /\ [][CleanColumnNames]_vars

---------------------------------------------------------------------------
(* The country correction alone, on a cleaned table of one record *)

InitCorrect ==
    /\ pc = "correct"
    /\ error = "none"
    /\ columns = <<ColYear, ColCountry, ColIssued>>
    /\ \E name \in CorrectionInputs :
          df = SetToBag({[year |-> Some(TopYear), country |-> Some(name),
                          number_of_issued_numerical |-> Some(1)]})
    /\ removed = 0
    /\ df_cont = {}
    /\ df_country = <<>>
    /\ df_geo = <<>>
    /\ written = <<>>

SpecCorrect == InitCorrect /\ [][CorrectCountryNames]_vars

---------------------------------------------------------------------------
(* Properties: what the queries are compared with *)

\* the three queries have run
AfterQueries == pc \in {"export", "done"}

\* the top-countries query has run
AfterCountryQuery == pc \in {"geo", "export", "done"}

\* the continent column is there
Enriched == pc \in {"cont", "country", "geo", "export", "done"}

RECURSIVE Count(_, _)
\* how many rows of bag B are among S
Count(B, S) ==
    IF S = {} THEN 0
    ELSE LET r == CHOOSE x \in S : TRUE IN B[r] + Count(B, S \ {r})

RECURSIVE Added(_, _)
\* the non-null issued counts of the records S of bag B, added up
Added(B, S) ==
    IF S = {} THEN 0
    ELSE LET r == CHOOSE x \in S : TRUE
             n == r.number_of_issued_numerical
         IN  (IF n = NULL THEN 0 ELSE B[r] * n[1]) + Added(B, S \ {r})

\* the sum of a group with null counts left out, and no sum at all for a
\* group that has nothing but null counts
SumOrNull(B, S) ==
    IF \E r \in S : r.number_of_issued_numerical # NULL THEN <<Added(B, S)>> ELSE NULL

\* the sum of a group with every null count taken as zero
SumNullAsZero(B, S) == <<Added(B, S)>>

SentinelValues == {<<Total>>, <<Others>>}

\* the records of a country in the fixed year
RecordsOfTopYear(c) == {r \in DOMAIN df : r.country = c /\ r.year = <<2017>>}

\* the countries the top-countries query ranks
Ranked ==
    {r.country : r \in {x \in DOMAIN df : /\ x.year = <<2017>>
                                          /\ x.country # NULL
                                          /\ x.country \notin SentinelValues}}

\* sum a is strictly greater than sum b, a missing sum being the lowest
Greater(a, b) == a # NULL /\ (b = NULL \/ a[1] > b[1])

\* year a comes strictly before year b, a missing year first
Earlier(a, b) == b # NULL /\ (a = NULL \/ a[1] < b[1])

GroupOfYearCountry(a) == {r \in DOMAIN df : r.year = a.year /\ r.country = a.country}

GroupOfYearContinent(a) == {r \in DOMAIN df : r.year = a.year /\ r.continent = a.continent}

\* the projection of an input row to year, country and issued count
Projected(raw) ==
    [year |-> raw[1], country |-> raw[2], number_of_issued_numerical |-> raw[4]]

\* every field of an input row is empty
Empty(raw) == \A i \in DOMAIN raw : raw[i] = NULL

FilterStep == pc = "filter" /\ pc' = "correct"

---------------------------------------------------------------------------
(* C1 *)

\* C1, as stated: after the Cleaner every retained record has a non-null
\* year and a non-null country.
C1_NonNullYearCountry ==
    pc = "correct" => \A r \in DOMAIN df : r.year # NULL /\ r.country # NULL

\* C1, amended: every record the Cleaner retains is the projection of an
\* input record that has a non-null field in some column; nothing more is
\* guaranteed about its year and country.
C1_RetainedFromNonEmpty ==
    [][FilterStep =>
        \A p \in DOMAIN df' : \E raw \in DOMAIN df : ~Empty(raw) /\ Projected(raw) = p]_vars

\* a retained record without year and country
C1_Witness ==
    pc = "correct" /\ \E r \in DOMAIN df : r.year = NULL /\ r.country = NULL

---------------------------------------------------------------------------
(* C7 *)

\* C7: the Cleaner drops exactly the records all of whose fields are empty:
\* each projected record is retained as often as it is the projection of a
\* non-empty input record, and the row count goes down by the number of
\* empty records, which is the number the job prints.
C7_DropsExactlyEmpty ==
    [][FilterStep =>
        LET empties == {raw \in DOMAIN df : Empty(raw)}
            kept == DOMAIN df \ empties
        IN  /\ \A p \in {Projected(raw) : raw \in kept} \cup DOMAIN df' :
                  CopiesIn(p, df') = Count(df, {raw \in kept : Projected(raw) = p})
            /\ BagCardinality(df') = BagCardinality(df) - Count(df, empties)
            /\ removed' = Count(df, empties)]_vars

\* empty records were dropped, and a record whose only value was in the
\* discarded column was retained
C7_Witness ==
    /\ pc = "correct"
    /\ removed > 0
    /\ \E r \in DOMAIN df :
          r.year = NULL /\ r.country = NULL /\ r.number_of_issued_numerical = NULL

---------------------------------------------------------------------------
(* C10 *)

Chars(s) == {s[i] : i \in 1..Len(s)}

IsPunctuation(c) == c \in {" ", "/", ".", ","}

KeptChar(c) == ~IsPunctuation(c)

RenameStep == pc = "rename" /\ pc' = "filter"

\* C10, as stated: each new column name is the old one with every space,
\* slash, period and comma deleted and every other character kept in order.
C10_PunctuationDeleted ==
    [][RenameStep =>
        /\ Len(columns') = Len(columns)
        /\ \A i \in 1..Len(columns) : columns'[i] = SelectSeq(columns[i], KeptChar)]_vars

\* C10, amended: each new column name is the old one with every slash,
\* period and comma deleted, every space replaced by an underscore and every
\* other character kept in order; so no new name contains a space, slash,
\* period or comma, and the only character it may hold that the old name did
\* not is the underscore.
C10_SpacesToUnderscores ==
    [][RenameStep =>
        /\ Len(columns') = Len(columns)
        /\ \A i \in 1..Len(columns) :
              LET old == columns[i]
                  new == columns'[i]
                  kept == SelectSeq(old, LAMBDA c : c \notin {"/", ".", ","})
              IN  /\ new = [j \in 1..Len(kept) |-> IF kept[j] = " " THEN "_" ELSE kept[j]]
                  /\ \A c \in Chars(new) : ~IsPunctuation(c)
                  /\ Chars(new) \subseteq Chars(old) \cup {"_"}]_vars

\* the name "a b" has been rewritten
C10_Witness == pc = "filter" /\ columns = << <<"a", "_", "b">> >>

---------------------------------------------------------------------------
(* C2 *)

TheCountry(B) == (CHOOSE r \in DOMAIN B : TRUE).country[1]

ScoreOf(name, i) == WRatio(full_process(name), full_process(countries[i]))

BestScore(name) ==
    CHOOSE m \in {ScoreOf(name, i) : i \in 1..Len(countries)} :
        \A i \in 1..Len(countries) : ScoreOf(name, i) <= m

\* C2: the corrected name is the best-scoring reference name (the first one
\* in the list's order when several score best) when the best score is at
\* least 85, and the input itself when it is below 85; a reference name is
\* returned unchanged.
C2_BestMatchOrInput ==
    [][pc = "correct" /\ pc' = "continent" =>
        LET name == TheCountry(df)
            out == TheCountry(df')
            best == BestScore(name)
        IN  /\ best >= 85 =>
                  \E i \in 1..Len(countries) :
                      /\ out = countries[i]
                      /\ ScoreOf(name, i) = best
                      /\ \A j \in 1..(i - 1) : ScoreOf(name, j) < best
            /\ best < 85 => out = name
            /\ (\E i \in 1..Len(countries) : name = countries[i]) => out = name]_vars

\* the correction has run and left a reference name
C2_Witness == pc = "continent" /\ TheCountry(df) = Cuba

---------------------------------------------------------------------------
(* C3 *)

\* the continent the reference mapping gives when all three lookups find
\* their key, and none otherwise
MappedContinent(country) ==
    IF /\ country # NULL
       /\ country[1] \in DOMAIN NameToAlpha2
       /\ NameToAlpha2[country[1]] \in DOMAIN Alpha2ToContinentCode
       /\ Alpha2ToContinentCode[NameToAlpha2[country[1]]] \in DOMAIN ContinentCodeToName
    THEN <<ContinentCodeToName[Alpha2ToContinentCode[NameToAlpha2[country[1]]]]>>
    ELSE NULL

\* C3: the Continent Mapper never raises, so it never ends the run, and
\* every record's continent is the one the reference mapping gives when all
\* three lookups succeed and is absent when one of them fails.
C3_ContinentOrAbsent ==
    /\ error # "PythonException"
    /\ Enriched => \A r \in DOMAIN df : r.continent = MappedContinent(r.country)

\* a table with a mapped country, a country whose code has no continent, an
\* unknown country and a record without a country has passed the mapper
C3_Witness ==
    /\ pc = "cont"
    /\ \E r \in DOMAIN df : r.country = <<Chad>> /\ r.continent = <<"Africa">>
    /\ \E r \in DOMAIN df : r.country = <<Pitcairn>> /\ r.continent = NULL
    /\ \E r \in DOMAIN df : r.country = <<Zz>> /\ r.continent = NULL
    /\ \E r \in DOMAIN df : r.country = NULL /\ r.continent = NULL

---------------------------------------------------------------------------
(* C4 *)

\* C4: the top-countries result has at most 10 rows, one per country; each
\* is a country other than 'total' and 'others' with a record in 2017; its
\* value is the sum of the issued counts of the country's 2017 records;
\* the rows come in non-increasing order of sum; and no country left out has
\* a sum strictly greater than a country in the result.
C4_TopCountries ==
    AfterCountryQuery =>
        LET out == RowsOf(df_country)
        IN  /\ Cardinality(out) <= 10
            /\ \A a, b \in out : a.country = b.country => a = b
            /\ \A a \in out :
                  /\ a.country \in Ranked
                  /\ a.visa_issued = SumOrNull(df, RecordsOfTopYear(a.country))
            /\ \A i \in 1..Len(df_country) : \A a, b \in df_country[i] :
                  a.visa_issued = b.visa_issued
            /\ \A i, j \in 1..Len(df_country) : \A a \in df_country[i], b \in df_country[j] :
                  i < j => ~Greater(b.visa_issued, a.visa_issued)
            /\ \A c \in Ranked \ {a.country : a \in out} : \A a \in out :
                  ~Greater(SumOrNull(df, RecordsOfTopYear(c)), a.visa_issued)

\* ten rows were returned and a country was left out, from a table that
\* also holds a 'total' record of 2017
C4_Witness ==
    /\ pc = "geo"
    /\ Cardinality(RowsOf(df_country)) = 10
    /\ Ranked \ {a.country : a \in RowsOf(df_country)} # {}
    /\ \E r \in DOMAIN df : r.country = <<Total>> /\ r.year = <<2017>>

---------------------------------------------------------------------------
(* C5 *)

\* the geographic result has one row per key in keys, with the group's sum,
\* the rows in ascending order of year
GeoResultFor(keys) ==
    LET out == RowsOf(df_geo)
    IN  /\ {<<a.year, a.country>> : a \in out} = keys
        /\ \A a, b \in out : a.year = b.year /\ a.country = b.country => a = b
        /\ \A a \in out : a.visa_issued = SumOrNull(df, GroupOfYearCountry(a))
        /\ \A i \in 1..Len(df_geo) : \A a, b \in df_geo[i] : a.year = b.year
        /\ \A i, j \in 1..Len(df_geo) : \A a \in df_geo[i], b \in df_geo[j] :
              i < j => ~Earlier(b.year, a.year)

\* C5, as stated: one row for every (year, country) among the records whose
\* country is neither 'total' nor 'others', and no other row.
C5_EveryNonSentinelKey ==
    AfterQueries =>
        GeoResultFor({<<r.year, r.country>> :
                         r \in {x \in DOMAIN df : x.country \notin SentinelValues}})

\* C5, amended: one row for every (year, country) among the records that
\* have a country and whose country is neither 'total' nor 'others', and no
\* other row: a record without a country is in no row.  Each row's value is
\* the sum of its records' issued counts, and the rows come by year
\* ascending, those without a year first.
C5_EveryNamedNonSentinelKey ==
    AfterQueries =>
        GeoResultFor({<<r.year, r.country>> :
                         r \in {x \in DOMAIN df : /\ x.country # NULL
                                                  /\ x.country \notin SentinelValues}})

\* the query has returned rows from a table that also holds a record
\* without a country and a sentinel record
C5_Witness ==
    /\ pc = "export"
    /\ \E r \in DOMAIN df : r.country = NULL
    /\ \E r \in DOMAIN df : r.country \in SentinelValues
    /\ RowsOf(df_geo) # {}

---------------------------------------------------------------------------
(* C6 *)

\* a country left out of the top-countries result has the same sum as a
\* country in it
TieAtCutOff ==
    \E c \in Ranked \ {a.country : a \in RowsOf(df_country)} :
        \E a \in RowsOf(df_country) :
            SumOrNull(df, RecordsOfTopYear(c)) = a.visa_issued

---------------------------------------------------------------------------
(* C8 *)

Artifacts ==
    <<"output/visa_continent.html", "output/top_countries_2017.html",
      "output/geographic_distribution.html", "output/cleaned_visa_data">>

Stopped == pc \in {"done", "failed"}

\* C8, as stated: when the run has stopped, all four artifacts have been
\* written or none has.
C8_AllOrNothing == Stopped => Len(written) \in {0, 4}

\* C8, amended: when the run has stopped, the artifacts written are the
\* first ones of the fixed order continent chart, top-countries chart,
\* geographic chart, cleaned CSV: all four exactly when the run completed,
\* and none when the data made the cleaning or the enrichment fail.
C8_PrefixOfArtifacts ==
    Stopped =>
        /\ Len(written) <= 4
        /\ written = SubSeq(Artifacts, 1, Len(written))
        /\ Len(written) = 4 <=> pc = "done"
        /\ error \in {"AnalysisException", "TypeError", "PythonException"} => written = <<>>

\* the run failed after two charts
C8_Witness == pc = "failed" /\ Len(written) = 2

---------------------------------------------------------------------------
(* C9 *)

\* C9, as stated: every reported sum is the sum of the group's non-null
\* issued counts, 0 for a group whose counts are all null.
C9_NullCountsAsZero ==
    AfterQueries =>
        /\ \A a \in df_cont : a.visa_issued = SumNullAsZero(df, GroupOfYearContinent(a))
        /\ \A a \in RowsOf(df_country) :
              a.visa_issued = SumNullAsZero(df, RecordsOfTopYear(a.country))
        /\ \A a \in RowsOf(df_geo) : a.visa_issued = SumNullAsZero(df, GroupOfYearCountry(a))

\* C9, amended: every reported sum is the sum of the group's non-null issued
\* counts when the group has one, and is null, not 0, for a group whose
\* counts are all null.
C9_NullCountsSkipped ==
    AfterQueries =>
        /\ \A a \in df_cont : a.visa_issued = SumOrNull(df, GroupOfYearContinent(a))
        /\ \A a \in RowsOf(df_country) :
              a.visa_issued = SumOrNull(df, RecordsOfTopYear(a.country))
        /\ \A a \in RowsOf(df_geo) : a.visa_issued = SumOrNull(df, GroupOfYearCountry(a))

\* a group with a null and a non-null count got a sum, in each of the three
\* results
C9_Witness ==
    /\ pc = "export"
    /\ \E a \in df_cont :
          /\ a.visa_issued # NULL
          /\ \E r \in GroupOfYearContinent(a) : r.number_of_issued_numerical = NULL
    /\ \E a \in RowsOf(df_country) :
          /\ a.visa_issued # NULL
          /\ \E r \in RecordsOfTopYear(a.country) : r.number_of_issued_numerical = NULL
    /\ \E a \in RowsOf(df_geo) :
          /\ a.visa_issued # NULL
          /\ \E r \in GroupOfYearCountry(a) : r.number_of_issued_numerical = NULL

====
